---- MODULE Spec2Model ----
(***************************************************************************)
(* WaveRoll Solo: the bridge between the privileged host (the custom       *)
(* editor provider) and the sandboxed webview.                             *)
(*                                                                         *)
(*   Spec        the webview's session manager: loads (handleMidiData,     *)
(*               initializeWaveRollPlayer), the settings-loaded handler,   *)
(*               the appearance-change listener and the unload handler.    *)
(*   RequestSpec the same with the engine's add-file requests.             *)
(*   HostSpec    the host's settings store (get-settings, save-settings).  *)
(*   ExportSpec  the host's export handler and its unique-name resolver.   *)
(*   PickerSpec  the host's answer to add-midi-files and add-audio-file.   *)
(***************************************************************************)
EXTENDS Integers, Sequences, FiniteSets, TLC

\* ------------------------------------------------------------------ bounds
\* midi-data events delivered to one webview
MaxLoads == 4
\* of these, the ones that arrive while an earlier load is still in flight
MaxOverlaps == 1

\* documents with an open editor, told apart by their URI
MaxDocs == 3
\* the directory holds the suggested name and its first MaxCounter numbered names
MaxCounter == 2
\* export-midi messages the host handles
MaxExports == 2
\* Largest timeoutMs the layout gate is started with, in poll delays.
MaxTimeoutPolls == 2
\* Longest byte sequence transferred between host and webview.
MaxBytes == 4
\* add-midi-files and add-audio-file messages the host handles
MaxPicks == 2

\* the null reference of the webview's module-level state
NULL == 0

Loads == 1..MaxLoads

\* ------------------------------------------------------- appearance settings
\* The "none" marker of a settings-loaded reply (settings: null).
NullSettings == [isNull |-> TRUE]

\* AppearanceSettings structures: paletteId is required, the others optional.
Settings ==
  { [paletteId |-> "p1"],
    [paletteId |-> "p2", noteColor |-> 1] }

VARIABLES
  \* ---- webview (sandbox) state
  pc,                              \* position of each handleMidiData call
  playerInstance,                  \* engine id or NULL
  currentBlobUrl,                  \* handle id or NULL
  appearanceChangeUnsubscribe,     \* engine the listener is registered on, or NULL
  fileAddRequestUnsubscribe,
  audioFileAddRequestUnsubscribe,
  pendingSettingsRequest,
  status,                          \* which container is visible
  errorText,                       \* textContent of #error-message
  \* ---- the engine and the blob registry, as the webview drives them
  constructed,                     \* engines createWaveRollPlayer has resolved with
  disposeCount,                    \* dispose() calls per engine
  allocated,                       \* handles URL.createObjectURL returned
  revokeCount,                     \* URL.revokeObjectURL calls per handle
  activeSubs,                      \* <<kind, engine>> callbacks still registered
  \* ---- the message channel
  getSettingsSent,                 \* get-settings messages posted
  settingsAnswered,                \* settings-loaded messages handled
  errorsSent,                      \* error messages posted, per load
  posted,                          \* messages posted by the last step
  event,                           \* the event the last step handled
  unloaded,                        \* beforeunload has run
  \* ---- history
  ops,                             \* engine and blob calls of the last step, in order
  overlaps,                        \* midi-data events that arrived while a load was in flight
  fromError,                       \* the latest midi-data arrived in the Error state
  \* ---- host: the settings store
  globalState,                     \* context.globalState: key -> value or Undefined
  hostPosted,                      \* messages the host posted in its last step
  hostEvent,                       \* the message the host handled last
  lastSaved,                       \* per document, the structure of its latest save-settings
  prevSaved,                       \* per document, the structure of the save before that
  \* ---- host: export
  files,                           \* names that exist in the document's directory
  suggested,                       \* the filename the export-midi messages carry
  xpc,                             \* position of each handleMidiExport call
  counter,                         \* getUniqueFileUri's counter, per call
  probeFailed,                     \* the probe of the returned name failed otherwise than not-found
  xevent,                          \* the export step taken last
  notifications,                   \* per handleMidiExport call, the notifications it showed
  \* ---- webview: the layout readiness gate (waitForContainerLayout)
  gpc,                             \* which callback the gate is waiting for, or its outcome
  now,                             \* Date.now() - startTime
  timeoutMs,                       \* the gate's timeoutMs argument
  dueAt,                           \* when the pending setTimeout may fire
  clientWidth,                     \* container.clientWidth
  clientHeight,                    \* container.clientHeight
  width,                           \* checkLayout's captured width
  rejectWidth,                     \* the width in the rejection's message
  resizable,                       \* the container's dimensions can change
  prevCheck,                       \* history: the observation before the latest
  lastCheck,                       \* history: the latest observation of the dimensions
  framesApart,                     \* history: animation frames between those two
  \* ---- the MIDI bytes on their way between host and webview
  bytes,                           \* the byte sequence to transfer
  cpc,                             \* "idle", "sent" or "received"
  direction,                       \* "load" (host to webview) or "export"
  wire,                            \* the data field of the message in flight
  received,                        \* what the receiver decoded
  \* ---- host: the native file picker (add-midi-files, add-audio-file)
  ppc,                             \* position of each add-file handler
  pickKind,                        \* the message each handler answers
  picked,                          \* the file the user selected in its picker
  fileAdded                        \* the messages each handler posted

sandboxVars ==
  << pc, playerInstance, currentBlobUrl, appearanceChangeUnsubscribe,
     fileAddRequestUnsubscribe, audioFileAddRequestUnsubscribe,
     pendingSettingsRequest, status, errorText, constructed, disposeCount,
     allocated, revokeCount, activeSubs, getSettingsSent, settingsAnswered,
     errorsSent, posted, event, unloaded, ops, overlaps, fromError >>

hostVars == << globalState, hostPosted, hostEvent, lastSaved, prevSaved >>

exportVars ==
  << files, suggested, xpc, counter, probeFailed, xevent, notifications >>

gateVars ==
  << gpc, now, timeoutMs, dueAt, clientWidth, clientHeight, width, rejectWidth,
     resizable, prevCheck, lastCheck, framesApart >>

codecVars == << bytes, cpc, direction, wire, received >>

pickerVars == << ppc, pickKind, picked, fileAdded >>

vars == << sandboxVars, hostVars, exportVars, gateVars, codecVars, pickerVars >>

\* ------------------------------------------------------------------ helpers
Msg(type, settings, message) ==
  [type |-> type, settings |-> settings, message |-> message]

\* What a rejected await or a throw carries: an Error with a message, or
\* any other value.
Thrown(isError, message) == [isError |-> isError, message |-> message]
Nothing == Thrown(FALSE, "")

\* The event a step handled: the load or engine it is about, the settings it
\* carried, whether they were applied, what was thrown while handling it
\* and whether that escaped the handler.
Event(kind, load, settings, applied, thrown, escaped) ==
  [kind |-> kind, load |-> load, settings |-> settings, applied |-> applied,
   thrown |-> thrown, escaped |-> escaped]

Plain(kind, load) == Event(kind, load, NullSettings, FALSE, Nothing, FALSE)

\* One call on the engine or on the blob registry.
Op(name, kind, id) == << name, kind, id >>

LayoutTimeout == Thrown(TRUE, "Container layout timeout")
MalformedPayload == Thrown(TRUE, "InvalidCharacterError")
EngineErrors == { Thrown(TRUE, "engine failure"), Thrown(FALSE, "not an Error") }

\* handleMidiData's catch: error instanceof Error ? error.message : default
ErrorMsg(thrown) ==
  IF thrown.isError THEN thrown.message ELSE "Failed to load MIDI file"

InFlight == { l \in Loads : pc[l] \in {"gate", "create"} }
Arrived == { l \in Loads : pc[l] # "idle" }
LiveEngines == { e \in constructed : disposeCount[e] = 0 }
LiveHandles == { h \in allocated : revokeCount[h] = 0 }

\* The session manager's state, read off the webview's variables.
SMState ==
  IF InFlight # {} THEN "Loading"
  ELSE IF status = "error" THEN "Error"
  ELSE IF playerInstance # NULL THEN "Ready"
  ELSE "Empty"

\* setStatus: the three containers exist in the page the host generates, so
\* the early return is never taken; the message is written only when truthy.
SetStatusText(st, message) ==
  IF st = "error" /\ message # "" THEN message ELSE errorText

\* The callbacks an engine's appearance-change event runs: the listener of
\* setupAppearanceChangeListener, once per registration on that engine.
AppearanceCallbacks(e, s) ==
  IF <<"appearance", e>> \in activeSubs /\ ~pendingSettingsRequest
  THEN << Msg("save-settings", s, "") >>
  ELSE << >>

\* The message each file-add listener posts.
FileAddMessage(kind) ==
  IF kind = "fileAdd" THEN Msg("add-midi-files", NullSettings, "")
  ELSE Msg("add-audio-file", NullSettings, "")

\* The callbacks an engine's file-add or audio-file-add request runs: the
\* listener of setupFileAddRequestListener registered on that engine.
FileAddCallbacks(kind, e) ==
  IF <<kind, e>> \in activeSubs THEN << FileAddMessage(kind) >> ELSE << >>

\* ------------------------------------------------------------------- Init
SandboxInit ==
  /\ pc = [l \in Loads |-> "idle"]
  /\ playerInstance = NULL
  /\ currentBlobUrl = NULL
  /\ appearanceChangeUnsubscribe = NULL
  /\ fileAddRequestUnsubscribe = NULL
  /\ audioFileAddRequestUnsubscribe = NULL
  /\ pendingSettingsRequest = FALSE
  /\ status = "loading"
  /\ errorText = "An error occurred"
  /\ constructed = {}
  /\ disposeCount = [l \in Loads |-> 0]
  /\ allocated = {}
  /\ revokeCount = [l \in Loads |-> 0]
  /\ activeSubs = {}
  /\ getSettingsSent = 0
  /\ settingsAnswered = 0
  /\ errorsSent = [l \in Loads |-> 0]
  /\ posted = << Msg("ready", NullSettings, "") >>
  /\ event = Plain("initialize", NULL)
  /\ unloaded = FALSE
  /\ ops = << >>
  /\ overlaps = 0
  /\ fromError = FALSE

\* ---------------------------------------------------------------- actions
\* A handleMidiData that asks for the saved settings on arrival of the
\* message, before the engine exists.
MidiDataRequestingSettings(l) ==
  /\ ~unloaded
  /\ pc[l] = "idle"
  /\ \A k \in Loads : k < l => pc[k] # "idle"
  /\ InFlight # {} => overlaps < MaxOverlaps
  /\ pc' = [pc EXCEPT ![l] = "gate"]
  /\ status' = "ready"
  /\ errorText' = SetStatusText("ready", "")
  /\ overlaps' = IF InFlight # {} THEN overlaps + 1 ELSE overlaps
  /\ fromError' = (SMState = "Error")
  /\ event' = Plain("midi-data", l)
  /\ pendingSettingsRequest' = TRUE
  /\ getSettingsSent' = getSettingsSent + 1
  /\ posted' = << Msg("get-settings", NullSettings, "") >>
  /\ ops' = << >>
  /\ UNCHANGED << playerInstance, currentBlobUrl, appearanceChangeUnsubscribe,
                  fileAddRequestUnsubscribe, audioFileAddRequestUnsubscribe,
                  constructed, disposeCount, allocated,
                  revokeCount, activeSubs, settingsAnswered,
                  errorsSent, unloaded >>

\* handleMessage "midi-data": handleMidiData up to its first await.
MidiData(l) ==
  /\ ~unloaded
  /\ pc[l] = "idle"
  /\ \A k \in Loads : k < l => pc[k] # "idle"
  /\ InFlight # {} => overlaps < MaxOverlaps
  /\ pc' = [pc EXCEPT ![l] = "gate"]
  /\ status' = "ready"
  /\ errorText' = SetStatusText("ready", "")
  /\ overlaps' = IF InFlight # {} THEN overlaps + 1 ELSE overlaps
  /\ fromError' = (SMState = "Error")
  /\ event' = Plain("midi-data", l)
  /\ posted' = << >>
  /\ ops' = << >>
  /\ UNCHANGED << playerInstance, currentBlobUrl, appearanceChangeUnsubscribe,
                  fileAddRequestUnsubscribe, audioFileAddRequestUnsubscribe,
                  pendingSettingsRequest, constructed, disposeCount, allocated,
                  revokeCount, activeSubs, getSettingsSent, settingsAnswered,
                  errorsSent, unloaded >>

\* handleMidiData's catch block, for the load l and the value caught.
LoadFailedSilently(l, thrown) ==
  /\ pc' = [pc EXCEPT ![l] = "failed"]
  /\ status' = "error"
  /\ errorText' = SetStatusText("error", ErrorMsg(thrown))
  /\ posted' = << >>
  /\ UNCHANGED errorsSent
  /\ event' = Event("load-failed", l, NullSettings, FALSE, thrown, FALSE)
  /\ ops' = << >>

LoadFailed(l, thrown) ==
  /\ pc' = [pc EXCEPT ![l] = "failed"]
  /\ status' = "error"
  /\ errorText' = SetStatusText("error", ErrorMsg(thrown))
  /\ posted' = << Msg("error", NullSettings, ErrorMsg(thrown)) >>
  /\ errorsSent' = [errorsSent EXCEPT ![l] = @ + 1]
  /\ event' = Event("load-failed", l, NullSettings, FALSE, thrown, FALSE)
  /\ ops' = << >>

\* A gate rejection that arrives after the handle has been allocated.
GateRejectAfterAllocation(l) ==
  /\ ~unloaded
  /\ pc[l] = "gate"
  /\ LoadFailed(l, LayoutTimeout)
  /\ allocated' = allocated \cup {l}
  /\ UNCHANGED << playerInstance, currentBlobUrl, appearanceChangeUnsubscribe,
                  fileAddRequestUnsubscribe, audioFileAddRequestUnsubscribe,
                  pendingSettingsRequest, constructed, disposeCount,
                  revokeCount, activeSubs, getSettingsSent, settingsAnswered,
                  unloaded, overlaps, fromError >>

\* waitForContainerLayout rejects: the await in handleMidiData throws.
GateReject(l) ==
  /\ ~unloaded
  /\ pc[l] = "gate"
  /\ LoadFailed(l, LayoutTimeout)
  /\ UNCHANGED << playerInstance, currentBlobUrl, appearanceChangeUnsubscribe,
                  fileAddRequestUnsubscribe, audioFileAddRequestUnsubscribe,
                  pendingSettingsRequest, constructed, disposeCount, allocated,
                  revokeCount, activeSubs, getSettingsSent, settingsAnswered,
                  unloaded, overlaps, fromError >>

\* waitForContainerLayout resolves and atob throws on the payload.
DecodeFails(l) ==
  /\ ~unloaded
  /\ pc[l] = "gate"
  /\ LoadFailed(l, MalformedPayload)
  /\ UNCHANGED << playerInstance, currentBlobUrl, appearanceChangeUnsubscribe,
                  fileAddRequestUnsubscribe, audioFileAddRequestUnsubscribe,
                  pendingSettingsRequest, constructed, disposeCount, allocated,
                  revokeCount, activeSubs, getSettingsSent, settingsAnswered,
                  unloaded, overlaps, fromError >>

\* initializeWaveRollPlayer's cleanup of the previous instance and blob URL.
DisposeOps(p) == IF p # NULL THEN << Op("dispose", "", p) >> ELSE << >>
RevokeOps(h) == IF h # NULL THEN << Op("revokeObjectURL", "", h) >> ELSE << >>
DisposedBy(p) == IF p # NULL THEN [disposeCount EXCEPT ![p] = @ + 1] ELSE disposeCount

\* revokeBlobUrl that revokes the URL but keeps it in currentBlobUrl.
revokeBlobUrlKeepingUrl(url, counts) ==
  IF url # NULL
  THEN [url |-> url, counts |-> [counts EXCEPT ![url] = @ + 1], ops |-> RevokeOps(url)]
  ELSE [url |-> url, counts |-> counts, ops |-> << >>]

\* revokeBlobUrl, on a value of currentBlobUrl and the registry's revoke
\* counts: what they are afterwards, and the calls made.
revokeBlobUrl(url, counts) ==
  IF url # NULL
  THEN [url |-> NULL, counts |-> [counts EXCEPT ![url] = @ + 1], ops |-> RevokeOps(url)]
  ELSE [url |-> url, counts |-> counts, ops |-> << >>]

RevokedBy(h) == revokeBlobUrl(h, revokeCount).counts

\* BeginInitialize without the dispose() of the previous instance.
BeginInitializeNoDispose(l) ==
  /\ ~unloaded
  /\ pc[l] = "gate"
  /\ playerInstance' = NULL
  /\ revokeCount' = RevokedBy(currentBlobUrl)
  /\ currentBlobUrl' = l
  /\ allocated' = allocated \cup {l}
  /\ pc' = [pc EXCEPT ![l] = "create"]
  /\ ops' = RevokeOps(currentBlobUrl) \o << Op("createObjectURL", "", l) >>
  /\ event' = Plain("begin-initialize", l)
  /\ posted' = << >>
  /\ UNCHANGED << appearanceChangeUnsubscribe, fileAddRequestUnsubscribe,
                  audioFileAddRequestUnsubscribe, pendingSettingsRequest, status,
                  errorText, constructed, disposeCount, activeSubs,
                  getSettingsSent, settingsAnswered, errorsSent, unloaded,
                  overlaps, fromError >>

\* waitForContainerLayout resolves, the payload decodes, and
\* initializeWaveRollPlayer runs up to its await of createWaveRollPlayer.
BeginInitialize(l) ==
  /\ ~unloaded
  /\ pc[l] = "gate"
  /\ disposeCount' = DisposedBy(playerInstance)
  /\ playerInstance' = NULL
  /\ revokeCount' = RevokedBy(currentBlobUrl)
  /\ currentBlobUrl' = l
  /\ allocated' = allocated \cup {l}
  /\ pc' = [pc EXCEPT ![l] = "create"]
  /\ ops' = DisposeOps(playerInstance) \o RevokeOps(currentBlobUrl)
             \o << Op("createObjectURL", "", l) >>
  /\ event' = Plain("begin-initialize", l)
  /\ posted' = << >>
  /\ UNCHANGED << appearanceChangeUnsubscribe, fileAddRequestUnsubscribe,
                  audioFileAddRequestUnsubscribe, pendingSettingsRequest, status,
                  errorText, constructed, activeSubs, getSettingsSent,
                  settingsAnswered, errorsSent, unloaded, overlaps, fromError >>

\* A listener's unsubscribe function, called if the variable holds one.
Unsubscribed(subs, kind, u) == IF u # NULL THEN subs \ {<<kind, u>>} ELSE subs
UnsubscribeOps(kind, u) == IF u # NULL THEN << Op("unsubscribe", kind, u) >> ELSE << >>

\* An EngineCreated whose listener setup subscribes without calling the
\* previous unsubscribe functions.
EngineCreatedKeepingListeners(l) ==
  /\ ~unloaded
  /\ pc[l] = "create"
  /\ constructed' = constructed \cup {l}
  /\ playerInstance' = l
  /\ activeSubs' =
       activeSubs \cup { <<"fileAdd", l>>, <<"audioAdd", l>>, <<"appearance", l>> }
  /\ fileAddRequestUnsubscribe' = l
  /\ audioFileAddRequestUnsubscribe' = l
  /\ appearanceChangeUnsubscribe' = l
  /\ pendingSettingsRequest' = TRUE
  /\ getSettingsSent' = getSettingsSent + 1
  /\ posted' = << Msg("get-settings", NullSettings, "") >>
  /\ pc' = [pc EXCEPT ![l] = "done"]
  /\ event' = Plain("engine-created", l)
  /\ ops' = << Op("subscribe", "fileAdd", l), Op("subscribe", "audioAdd", l),
               Op("subscribe", "appearance", l) >>
  /\ UNCHANGED << currentBlobUrl, status, errorText, disposeCount, allocated,
                  revokeCount, settingsAnswered, errorsSent, unloaded, overlaps,
                  fromError >>

\* createWaveRollPlayer resolves with the engine of load l: the listeners are
\* set up and the saved settings requested.
EngineCreated(l) ==
  /\ ~unloaded
  /\ pc[l] = "create"
  /\ constructed' = constructed \cup {l}
  /\ playerInstance' = l
  /\ activeSubs' =
       Unsubscribed(Unsubscribed(Unsubscribed(activeSubs,
           "fileAdd", fileAddRequestUnsubscribe),
           "audioAdd", audioFileAddRequestUnsubscribe),
           "appearance", appearanceChangeUnsubscribe)
       \cup { <<"fileAdd", l>>, <<"audioAdd", l>>, <<"appearance", l>> }
  /\ fileAddRequestUnsubscribe' = l
  /\ audioFileAddRequestUnsubscribe' = l
  /\ appearanceChangeUnsubscribe' = l
  /\ pendingSettingsRequest' = TRUE
  /\ getSettingsSent' = getSettingsSent + 1
  /\ posted' = << Msg("get-settings", NullSettings, "") >>
  /\ pc' = [pc EXCEPT ![l] = "done"]
  /\ event' = Plain("engine-created", l)
  /\ ops' = UnsubscribeOps("fileAdd", fileAddRequestUnsubscribe)
             \o UnsubscribeOps("audioAdd", audioFileAddRequestUnsubscribe)
             \o << Op("subscribe", "fileAdd", l), Op("subscribe", "audioAdd", l) >>
             \o UnsubscribeOps("appearance", appearanceChangeUnsubscribe)
             \o << Op("subscribe", "appearance", l) >>
  /\ UNCHANGED << currentBlobUrl, status, errorText, disposeCount, allocated,
                  revokeCount, settingsAnswered, errorsSent, unloaded, overlaps,
                  fromError >>

\* createWaveRollPlayer rejects: rethrown, caught by handleMidiData.
EngineFailed(l, thrown) ==
  /\ ~unloaded
  /\ pc[l] = "create"
  /\ LoadFailed(l, thrown)
  /\ UNCHANGED << playerInstance, currentBlobUrl, appearanceChangeUnsubscribe,
                  fileAddRequestUnsubscribe, audioFileAddRequestUnsubscribe,
                  pendingSettingsRequest, constructed, disposeCount, allocated,
                  revokeCount, activeSubs, getSettingsSent, settingsAnswered,
                  unloaded, overlaps, fromError >>

\* What applyAppearanceSettings can do when the settings-loaded handler
\* calls it with s (fire appearance-change, throw): nothing when the handler
\* does not call it.
ApplyOutcomes(s) ==
  IF s # NullSettings /\ playerInstance # NULL THEN BOOLEAN ELSE {FALSE}

\* handleMessage "settings-loaded": the host's reply to one get-settings.
\* s is the payload; emits: the engine fires appearance-change while it
\* applies s; throws: applyAppearanceSettings throws.
SettingsLoaded(s, emits, throws) ==
  /\ ~unloaded
  /\ settingsAnswered < getSettingsSent
  /\ settingsAnswered' = settingsAnswered + 1
  /\ LET applied == s # NullSettings /\ playerInstance # NULL
     IN /\ posted' = IF applied /\ emits
                     THEN AppearanceCallbacks(playerInstance, s)
                     ELSE << >>
        /\ pendingSettingsRequest' =
             IF applied /\ throws THEN pendingSettingsRequest ELSE FALSE
        /\ event' = Event("settings-loaded", NULL, s, applied,
                           IF applied /\ throws THEN Thrown(TRUE, "apply failed")
                           ELSE Nothing,
                           applied /\ throws)
        /\ ops' = IF applied
                  THEN << Op("applyAppearanceSettings", "", playerInstance) >>
                  ELSE << >>
  /\ UNCHANGED << pc, playerInstance, currentBlobUrl, appearanceChangeUnsubscribe,
                  fileAddRequestUnsubscribe, audioFileAddRequestUnsubscribe,
                  status, errorText, constructed, disposeCount, allocated,
                  revokeCount, activeSubs, getSettingsSent, errorsSent, unloaded,
                  overlaps, fromError >>

\* The user changes the appearance in the engine's UI: the live engine e
\* fires appearance-change with the changed settings s.
AppearanceChange(e, s) ==
  /\ ~unloaded
  /\ e \in LiveEngines
  /\ posted' = AppearanceCallbacks(e, s)
  /\ event' = Event("appearance-change", e, s, FALSE, Nothing, FALSE)
  /\ ops' = << >>
  /\ UNCHANGED << pc, playerInstance, currentBlobUrl, appearanceChangeUnsubscribe,
                  fileAddRequestUnsubscribe, audioFileAddRequestUnsubscribe,
                  pendingSettingsRequest, status, errorText, constructed,
                  disposeCount, allocated, revokeCount, activeSubs,
                  getSettingsSent, settingsAnswered, errorsSent, unloaded,
                  overlaps, fromError >>

\* The user clicks "Add MIDI Files" (kind fileAdd) or "Add Audio File" (kind
\* audioAdd) in the UI of the live engine e: the engine fires the request.
FileAddRequest(e, kind) ==
  /\ ~unloaded
  /\ e \in LiveEngines
  /\ posted' = FileAddCallbacks(kind, e)
  /\ event' = Plain(kind, e)
  /\ ops' = << >>
  /\ UNCHANGED << pc, playerInstance, currentBlobUrl, appearanceChangeUnsubscribe,
                  fileAddRequestUnsubscribe, audioFileAddRequestUnsubscribe,
                  pendingSettingsRequest, status, errorText, constructed,
                  disposeCount, allocated, revokeCount, activeSubs,
                  getSettingsSent, settingsAnswered, errorsSent, unloaded,
                  overlaps, fromError >>

\* The beforeunload listener registered by initialize.
Unload ==
  /\ ~unloaded
  /\ unloaded' = TRUE
  /\ activeSubs' =
       Unsubscribed(Unsubscribed(Unsubscribed(activeSubs,
           "appearance", appearanceChangeUnsubscribe),
           "fileAdd", fileAddRequestUnsubscribe),
           "audioAdd", audioFileAddRequestUnsubscribe)
  /\ appearanceChangeUnsubscribe' = NULL
  /\ fileAddRequestUnsubscribe' = NULL
  /\ audioFileAddRequestUnsubscribe' = NULL
  /\ disposeCount' = DisposedBy(playerInstance)
  /\ playerInstance' = NULL
  /\ revokeCount' = RevokedBy(currentBlobUrl)
  /\ currentBlobUrl' = revokeBlobUrl(currentBlobUrl, revokeCount).url
  /\ ops' = UnsubscribeOps("appearance", appearanceChangeUnsubscribe)
             \o UnsubscribeOps("fileAdd", fileAddRequestUnsubscribe)
             \o UnsubscribeOps("audioAdd", audioFileAddRequestUnsubscribe)
             \o DisposeOps(playerInstance)
             \o revokeBlobUrl(currentBlobUrl, revokeCount).ops
  /\ event' = Plain("unload", NULL)
  /\ posted' = << >>
  /\ UNCHANGED << pc, pendingSettingsRequest, status, errorText, constructed,
                  allocated, getSettingsSent, settingsAnswered, errorsSent,
                  overlaps, fromError >>


\* ======================================================= host: settings store
\* Document URIs, as uri.toString() gives them (character sequences).
AllUris == << <<"a">>, <<"b">>, <<"a", "b">>, <<"b", "a">> >>
Uris == { AllUris[i] : i \in 1..MaxDocs }

APPEARANCE_STORAGE_PREFIX == << "appearance:" >>

\* An absent key of the Memento: get returns undefined.
Undefined == [isUndefined |-> TRUE]

\* A key made of the prefix and the first character of the URI only.
getSettingsKeyByFirstCharacter(uri) == APPEARANCE_STORAGE_PREFIX \o << uri[1] >>

\* getSettingsKey: the prefix followed by the URI.
getSettingsKey(uri) == APPEARANCE_STORAGE_PREFIX \o uri

AllKeys == { getSettingsKey(u) : u \in Uris }

\* loadAppearanceSettings: globalState.get(key)
loadAppearanceSettings(uri) == globalState[getSettingsKey(uri)]

\* saveAppearanceSettings with a field-level merge into the stored record.
saveMerged(uri, settings) ==
  LET old == globalState[getSettingsKey(uri)]
      merged == IF old = Undefined THEN settings
                ELSE [f \in DOMAIN old \cup DOMAIN settings |->
                        IF f \in DOMAIN settings THEN settings[f] ELSE old[f]]
  IN [globalState EXCEPT ![getSettingsKey(uri)] = merged]

\* saveAppearanceSettings: globalState.update(key, settings); the Memento's
\* value is replaced at the call.
saveAppearanceSettings(uri, settings) ==
  [globalState EXCEPT ![getSettingsKey(uri)] = settings]

\* A save-settings handler without the test of its payload.
TruthyWhateverThePayload(settings) == TRUE

\* JavaScript truthiness of a save-settings payload: null and absent are falsy.
Truthy(settings) == settings \notin {NullSettings, Undefined}

\* settings ?? null
OrNull(v) == IF v = Undefined THEN NullSettings ELSE v

HostEvent(kind, uri, settings) == [kind |-> kind, uri |-> uri, settings |-> settings]

HostInit ==
  /\ globalState = [k \in AllKeys |-> Undefined]
  /\ hostPosted = << >>
  /\ hostEvent = HostEvent("resolveCustomEditor", << >>, NullSettings)
  /\ lastSaved = [u \in Uris |-> NullSettings]
  /\ prevSaved = [u \in Uris |-> NullSettings]

\* onDidReceiveMessage "get-settings", in the editor of document uri.
HostGetSettings(uri) ==
  /\ hostPosted' = << Msg("settings-loaded", OrNull(loadAppearanceSettings(uri)), "") >>
  /\ hostEvent' = HostEvent("get-settings", uri, NullSettings)
  /\ UNCHANGED << globalState, lastSaved, prevSaved >>

\* onDidReceiveMessage "save-settings" carrying settings (a structure,
\* null, or nothing), in the editor of document uri.
HostSaveSettings(uri, settings) ==
  /\ globalState' = IF Truthy(settings)
                    THEN saveAppearanceSettings(uri, settings)
                    ELSE globalState
  /\ lastSaved' = IF settings \in Settings
                  THEN [lastSaved EXCEPT ![uri] = settings]
                  ELSE lastSaved
  /\ prevSaved' = IF settings \in Settings
                  THEN [prevSaved EXCEPT ![uri] = lastSaved[uri]]
                  ELSE prevSaved
  /\ hostPosted' = << >>
  /\ hostEvent' = HostEvent("save-settings", uri, settings)

\* "ready" answered with the MIDI data and, unasked, the saved settings.
HostReadyWithSettings(uri) ==
  /\ hostPosted' = << Msg("midi-data", NullSettings, ""),
                      Msg("settings-loaded", OrNull(loadAppearanceSettings(uri)), "") >>
  /\ hostEvent' = HostEvent("ready", uri, NullSettings)
  /\ UNCHANGED << globalState, lastSaved, prevSaved >>

\* onDidReceiveMessage "ready": sendMidiData posts one midi-data message.
HostReady(uri) ==
  /\ hostPosted' = << Msg("midi-data", NullSettings, "") >>
  /\ hostEvent' = HostEvent("ready", uri, NullSettings)
  /\ UNCHANGED << globalState, lastSaved, prevSaved >>

\* onDidReceiveMessage "error": showErrorMessage, nothing is posted.
HostError(uri) ==
  /\ hostPosted' = << >>
  /\ hostEvent' = HostEvent("error", uri, NullSettings)
  /\ UNCHANGED << globalState, lastSaved, prevSaved >>

HostNext ==
  \/ \E u \in Uris : HostReady(u) /\ UNCHANGED << sandboxVars, exportVars, gateVars, codecVars, pickerVars >>
  \/ \E u \in Uris : HostError(u) /\ UNCHANGED << sandboxVars, exportVars, gateVars, codecVars, pickerVars >>
  \/ \E u \in Uris : HostGetSettings(u) /\ UNCHANGED << sandboxVars, exportVars, gateVars, codecVars, pickerVars >>
  \/ \E u \in Uris, s \in Settings \cup {NullSettings, Undefined} :
       HostSaveSettings(u, s) /\ UNCHANGED << sandboxVars, exportVars, gateVars, codecVars, pickerVars >>

\* ============================================================= host: export
\* The last segment of the document's URI: the name of the open document
\* in its directory.
DocumentName == << "d", ".", "m" >>

\* Suggested filenames, as character sequences: s.m, .m, s, s.t.m, and the
\* document's own name.
Filenames ==
  { << "s", ".", "m" >>, << ".", "m" >>, << "s" >>, << "s", ".", "t", ".", "m" >>,
    DocumentName }

Exports == 1..MaxExports

\* String.prototype.lastIndexOf, 0-based, -1 when absent.
LastIndexOf(str, ch) ==
  IF \E i \in DOMAIN str : str[i] = ch
  THEN (CHOOSE i \in DOMAIN str :
          str[i] = ch /\ \A j \in DOMAIN str : str[j] = ch => j <= i) - 1
  ELSE -1

\* The split of getUniqueFileUri taken at any '.', also a leading one.
HasExtensionAtAnyDot(filename) == LastIndexOf(filename, ".") >= 0

\* getUniqueFileUri: lastDotIndex > 0
HasExtension(filename) == LastIndexOf(filename, ".") > 0

\* filename.slice(0, lastDotIndex) or the whole filename
BaseName(filename) ==
  IF HasExtension(filename)
  THEN SubSeq(filename, 1, LastIndexOf(filename, "."))
  ELSE filename

\* filename.slice(lastDotIndex) or ""
Extension(filename) ==
  IF HasExtension(filename)
  THEN SubSeq(filename, LastIndexOf(filename, ".") + 1, Len(filename))
  ELSE << >>

\* The decimal digits of a counter, as the template literal prints it.
DigitChars == << "0", "1", "2", "3", "4", "5", "6", "7", "8", "9" >>
RECURSIVE Decimal(_)
Decimal(n) ==
  IF n < 10 THEN << DigitChars[n + 1] >>
  ELSE Decimal(n \div 10) \o << DigitChars[(n % 10) + 1] >>

\* `${baseName}(${counter})${extension}`
NewFilename(filename, n) ==
  BaseName(filename) \o << "(" >> \o Decimal(n) \o << ")" >> \o Extension(filename)

\* targetUri after n increments of the counter, within the directory.
TargetUri(filename, n) == IF n = 0 THEN filename ELSE NewFilename(filename, n)

\* The names the model lets exist in the directory.
Universe == { TargetUri(suggested, n) : n \in 0..MaxCounter }

\* A notification shown to the user, and what the handler had done when it
\* showed it: "written" (writeFile completed), "write-raised" or "raised".
Notification(shown, after) == [shown |-> shown, after |-> after]

XEvent(kind, export, target, outcome, existed) ==
  [kind |-> kind, export |-> export, target |-> target, outcome |-> outcome,
   existed |-> existed]

\* files holds the names of Universe that exist: when the editor opens,
\* the document itself, if the exports are to suggest its name.
ExportInitFor(names) ==
  /\ suggested \in names
  /\ files = {DocumentName} \cap Universe
  /\ xpc = [h \in Exports |-> "idle"]
  /\ counter = [h \in Exports |-> 0]
  /\ probeFailed = [h \in Exports |-> FALSE]
  /\ xevent = XEvent("none", 0, << >>, "", FALSE)
  /\ notifications = [h \in Exports |-> << >>]

\* onDidReceiveMessage "export-midi": handleMidiExport up to the first probe
\* of getUniqueFileUri.
ExportMidi(h) ==
  /\ xpc[h] = "idle"
  /\ xpc' = [xpc EXCEPT ![h] = "probe"]
  /\ counter' = [counter EXCEPT ![h] = 0]
  /\ probeFailed' = [probeFailed EXCEPT ![h] = FALSE]
  /\ xevent' = XEvent("export-midi", h, suggested, "", FALSE)
  /\ UNCHANGED << files, suggested, notifications >>

\* onDidReceiveMessage "export-midi" with a payload Buffer.from or
\* Uri.joinPath throws on (data or filename is not a string): the catch
\* block shows the error notification and the handler ends.
ExportMidiRaises(h) ==
  /\ xpc[h] = "idle"
  /\ xpc' = [xpc EXCEPT ![h] = "done"]
  /\ notifications' =
       [notifications EXCEPT ![h] = Append(@, Notification("showErrorMessage", "raised"))]
  /\ xevent' = XEvent("raised", h, << >>, "showErrorMessage", FALSE)
  /\ UNCHANGED << files, suggested, counter, probeFailed >>

\* fileExists: true when stat resolves, false on any rejection.
fileExists(outcome) == outcome = "found"

\* What stat can answer for a name.
StatOutcomes(name) ==
  (IF name \in files THEN {"found"} ELSE {"not-found"}) \cup {"error"}

\* One turn of getUniqueFileUri's loop: stat answers for the current target.
Probe(h, outcome) ==
  /\ xpc[h] = "probe"
  /\ outcome \in StatOutcomes(TargetUri(suggested, counter[h]))
  /\ IF fileExists(outcome)
     THEN /\ counter' = [counter EXCEPT ![h] = @ + 1]
          /\ xevent' = XEvent("probed", h, TargetUri(suggested, counter[h]), outcome, TRUE)
          /\ UNCHANGED << xpc, probeFailed >>
     ELSE /\ xpc' = [xpc EXCEPT ![h] = "write"]
          /\ probeFailed' = [probeFailed EXCEPT ![h] = (outcome = "error")]
          /\ xevent' = XEvent("resolved", h, TargetUri(suggested, counter[h]), outcome,
                              TargetUri(suggested, counter[h]) \in files)
          /\ UNCHANGED counter
  /\ UNCHANGED << files, suggested, notifications >>

\* A Write whose catch block shows nothing when writeFile rejects.
WriteSilentOnFailure(h, ok) ==
  /\ xpc[h] = "write"
  /\ files' = IF ok THEN files \cup {TargetUri(suggested, counter[h])} ELSE files
  /\ notifications' =
       [notifications EXCEPT ![h] =
          IF ok THEN Append(@, Notification("showInformationMessage", "written"))
          ELSE @]
  /\ xevent' = XEvent("written", h, TargetUri(suggested, counter[h]),
                      IF ok THEN "showInformationMessage" ELSE "",
                      TargetUri(suggested, counter[h]) \in files)
  /\ xpc' = [xpc EXCEPT ![h] = "done"]
  /\ counter' = [counter EXCEPT ![h] = 0]
  /\ probeFailed' = [probeFailed EXCEPT ![h] = FALSE]
  /\ UNCHANGED suggested

\* workspace.fs.writeFile completes (creating or replacing the file) or
\* rejects; the handler shows the matching notification and ends.
Write(h, ok) ==
  /\ xpc[h] = "write"
  /\ files' = IF ok THEN files \cup {TargetUri(suggested, counter[h])} ELSE files
  /\ notifications' =
       [notifications EXCEPT ![h] =
          Append(@, IF ok THEN Notification("showInformationMessage", "written")
                    ELSE Notification("showErrorMessage", "write-raised"))]
  /\ xevent' = XEvent("written", h, TargetUri(suggested, counter[h]),
                      IF ok THEN "showInformationMessage" ELSE "showErrorMessage",
                      TargetUri(suggested, counter[h]) \in files)
  /\ xpc' = [xpc EXCEPT ![h] = "done"]
  /\ counter' = [counter EXCEPT ![h] = 0]
  /\ probeFailed' = [probeFailed EXCEPT ![h] = FALSE]
  /\ UNCHANGED suggested

\* Another writer creates a file in the directory.
ExternalWrite(name) ==
  /\ name \in Universe \ files
  /\ files' = files \cup {name}
  /\ xevent' = XEvent("external-write", 0, name, "", FALSE)
  /\ UNCHANGED << suggested, xpc, counter, probeFailed, notifications >>

ExportNext ==
  \/ \E h \in Exports : ExportMidi(h) /\ UNCHANGED << sandboxVars, hostVars, gateVars, codecVars, pickerVars >>
  \/ \E h \in Exports : ExportMidiRaises(h) /\ UNCHANGED << sandboxVars, hostVars, gateVars, codecVars, pickerVars >>
  \/ \E h \in Exports, o \in {"found", "not-found", "error"} :
       Probe(h, o) /\ UNCHANGED << sandboxVars, hostVars, gateVars, codecVars, pickerVars >>
  \/ \E h \in Exports, ok \in BOOLEAN : Write(h, ok) /\ UNCHANGED << sandboxVars, hostVars, gateVars, codecVars, pickerVars >>
  \/ \E n \in Universe : ExternalWrite(n) /\ UNCHANGED << sandboxVars, hostVars, gateVars, codecVars, pickerVars >>

\* ============================================ webview: layout readiness gate
\* setTimeout(checkLayout, 16)
PollDelayMs == 16
\* const minWidth = 100
minWidth == 100
\* Math.abs(stableWidth - width) < 10
MaxDrift == 10

\* The timeoutMs values the gate is started with, in poll delays (the
\* default, 2000, is 125 of them), and how far the clock runs.
Timeouts == { PollDelayMs * k : k \in 1..MaxTimeoutPolls }
MaxNow == PollDelayMs * (MaxTimeoutPolls + 2)

Widths == { 0, minWidth - 1, minWidth, minWidth + MaxDrift - 1, minWidth + MaxDrift }
Heights == { 0, 1 }

NoCheck == [w |-> -1, h |-> -1]
Check(w, h) == [w |-> w, h |-> h]

Abs(x) == IF x < 0 THEN -x ELSE x

\* checkLayout's test of the first observation.
HasValidDimensions(w, h) == w >= minWidth /\ h > 0

\* The stability test without the comparison of the two widths.
IsStableIgnoringDrift(stableWidth, stableHeight, w) ==
  stableWidth >= minWidth /\ stableHeight > 0

\* The test in the second animation frame.
IsStable(stableWidth, stableHeight, w) ==
  /\ stableWidth >= minWidth
  /\ stableHeight > 0
  /\ Abs(stableWidth - w) < MaxDrift

\* A timeout test that is already true when the gate starts.
TimedOutAtOnce(elapsed) == elapsed >= 0

\* if (elapsed > timeoutMs)
TimedOut(elapsed) == elapsed > timeoutMs

GateDone == gpc \in {"resolved", "rejected"}

GateInitFor(timeouts, layouts) ==
  /\ gpc = "raf1"
  /\ now = 0
  /\ timeoutMs \in timeouts
  /\ dueAt = 0
  /\ resizable \in layouts
  /\ clientWidth \in (IF resizable THEN Widths ELSE {0})
  /\ clientHeight \in (IF resizable THEN Heights ELSE {0})
  /\ width = 0
  /\ rejectWidth = -1
  /\ prevCheck = NoCheck
  /\ lastCheck = NoCheck
  /\ framesApart = 0

\* checkLayout(), called after an observation `seen` was recorded `frames`
\* animation frames after the one before it (seen = NoCheck: none was).
checkLayout(seen, frames) ==
  IF TimedOut(now)
  THEN /\ gpc' = "rejected"
       /\ rejectWidth' = clientWidth
       /\ prevCheck' = IF seen = NoCheck THEN prevCheck ELSE lastCheck
       /\ lastCheck' = IF seen = NoCheck THEN lastCheck ELSE seen
       /\ framesApart' = IF seen = NoCheck THEN framesApart ELSE frames
       /\ UNCHANGED << width, dueAt >>
  ELSE /\ width' = clientWidth
       /\ prevCheck' = IF seen = NoCheck THEN lastCheck ELSE seen
       /\ lastCheck' = Check(clientWidth, clientHeight)
       /\ framesApart' = 0
       /\ UNCHANGED rejectWidth
       /\ IF HasValidDimensions(clientWidth, clientHeight)
          THEN gpc' = "stable" /\ UNCHANGED dueAt
          ELSE gpc' = "timer" /\ dueAt' = now + PollDelayMs

\* The browser runs the gate's pending requestAnimationFrame callback.
AnimationFrame ==
  /\ gpc \in {"raf1", "raf2", "stable"}
  /\ IF gpc = "raf1"
     THEN /\ gpc' = "raf2"
          /\ UNCHANGED << dueAt, width, rejectWidth, prevCheck, lastCheck, framesApart >>
     ELSE IF gpc = "raf2"
     THEN checkLayout(NoCheck, 0)
     ELSE IF IsStable(clientWidth, clientHeight, width)
     THEN /\ gpc' = "resolved"
          /\ prevCheck' = lastCheck
          /\ lastCheck' = Check(clientWidth, clientHeight)
          /\ framesApart' = 1
          /\ UNCHANGED << dueAt, width, rejectWidth >>
     ELSE checkLayout(Check(clientWidth, clientHeight), 1)
  /\ UNCHANGED << now, timeoutMs, clientWidth, clientHeight, resizable >>

\* The pending setTimeout(checkLayout, 16) fires, not before its delay.
TimerFires ==
  /\ gpc = "timer"
  /\ now >= dueAt
  /\ checkLayout(NoCheck, 0)
  /\ UNCHANGED << now, timeoutMs, clientWidth, clientHeight, resizable >>

\* Time passes while the gate waits.
Tick ==
  /\ ~GateDone
  /\ now < MaxNow
  /\ now' = now + PollDelayMs
  /\ UNCHANGED << gpc, timeoutMs, dueAt, clientWidth, clientHeight, width,
                  rejectWidth, resizable, prevCheck, lastCheck, framesApart >>

\* The webview lays the container out again.
Resize(w, h) ==
  /\ ~GateDone
  /\ resizable
  /\ << w, h >> # << clientWidth, clientHeight >>
  /\ clientWidth' = w
  /\ clientHeight' = h
  /\ UNCHANGED << gpc, now, timeoutMs, dueAt, width, rejectWidth, resizable,
                  prevCheck, lastCheck, framesApart >>

GateNext ==
  \/ AnimationFrame /\ UNCHANGED << sandboxVars, hostVars, exportVars, codecVars, pickerVars >>
  \/ TimerFires /\ UNCHANGED << sandboxVars, hostVars, exportVars, codecVars, pickerVars >>
  \/ Tick /\ UNCHANGED << sandboxVars, hostVars, exportVars, codecVars, pickerVars >>
  \/ \E w \in Widths, h \in Heights :
       Resize(w, h) /\ UNCHANGED << sandboxVars, hostVars, exportVars, codecVars, pickerVars >>

\* ================================================== Base64 transfer of bytes
\* Byte values the transfers are tried with, and the byte sequences.
ByteSamples == { 0, 65, 251, 255 }

RECURSIVE SeqsUpTo(_, _)
SeqsUpTo(S, n) ==
  IF n = 0 THEN { << >> }
  ELSE LET shorter == SeqsUpTo(S, n - 1)
       IN shorter \cup { Append(s, x) : s \in { q \in shorter : Len(q) = n - 1 }, x \in S }

ByteSeqs == SeqsUpTo(ByteSamples, MaxBytes)

\* The Base64 alphabet, value v at position v + 1.
Base64Alphabet ==
  << "A", "B", "C", "D", "E", "F", "G", "H", "I", "J", "K", "L", "M",
     "N", "O", "P", "Q", "R", "S", "T", "U", "V", "W", "X", "Y", "Z",
     "a", "b", "c", "d", "e", "f", "g", "h", "i", "j", "k", "l", "m",
     "n", "o", "p", "q", "r", "s", "t", "u", "v", "w", "x", "y", "z",
     "0", "1", "2", "3", "4", "5", "6", "7", "8", "9", "+", "/" >>

Base64Char(v) == Base64Alphabet[v + 1]
Base64Value(c) == (CHOOSE i \in DOMAIN Base64Alphabet : Base64Alphabet[i] = c) - 1
IsBase64Char(c) == \E i \in DOMAIN Base64Alphabet : Base64Alphabet[i] = c

Tail3(s) == SubSeq(s, 4, Len(s))
Tail4(s) == SubSeq(s, 5, Len(s))

\* Base64 encoding with padding: three bytes to four characters.
RECURSIVE Base64Encode(_)
Base64Encode(b) ==
  IF Len(b) = 0 THEN << >>
  ELSE IF Len(b) = 1
  THEN LET v == b[1] * 16
       IN << Base64Char(v \div 64), Base64Char(v % 64), "=", "=" >>
  ELSE IF Len(b) = 2
  THEN LET v == (b[1] * 256 + b[2]) * 4
       IN << Base64Char(v \div 4096), Base64Char((v \div 64) % 64),
             Base64Char(v % 64), "=" >>
  ELSE LET v == b[1] * 65536 + b[2] * 256 + b[3]
       IN << Base64Char(v \div 262144), Base64Char((v \div 4096) % 64),
             Base64Char((v \div 64) % 64), Base64Char(v % 64) >>
          \o Base64Encode(Tail3(b))

\* Base64 decoding of unpadded characters: four characters to three bytes,
\* the bits left over in a shorter last group dropped.
RECURSIVE Base64DecodeChars(_)
Base64DecodeChars(c) ==
  IF Len(c) <= 1 THEN << >>
  ELSE IF Len(c) = 2
  THEN << (Base64Value(c[1]) * 64 + Base64Value(c[2])) \div 16 >>
  ELSE IF Len(c) = 3
  THEN LET v == Base64Value(c[1]) * 4096 + Base64Value(c[2]) * 64 + Base64Value(c[3])
       IN << v \div 1024, (v \div 4) % 256 >>
  ELSE LET v == Base64Value(c[1]) * 262144 + Base64Value(c[2]) * 4096
                  + Base64Value(c[3]) * 64 + Base64Value(c[4])
       IN << v \div 65536, (v \div 256) % 256, v % 256 >>
          \o Base64DecodeChars(Tail4(c))

\* The text without its trailing padding, at most two "=".
RECURSIVE Unpadded(_, _)
Unpadded(s, n) ==
  IF n > 0 /\ Len(s) > 0 /\ s[Len(s)] = "="
  THEN Unpadded(SubSeq(s, 1, Len(s) - 1), n - 1)
  ELSE s

\* What a decoding that threw leaves in place of bytes.
InvalidCharacterError == << -1 >>

\* Buffer.from(bytes).toString("base64")
BufferToBase64(b) == Base64Encode(b)

\* atob: the binary string, one code unit per byte; throws on a character
\* outside the alphabet or an impossible length.
atob(s) ==
  LET c == Unpadded(s, 2)
  IN IF (\E i \in DOMAIN c : ~IsBase64Char(c[i])) \/ Len(c) % 4 = 1
     THEN [threw |-> TRUE, binaryString |-> << >>]
     ELSE [threw |-> FALSE, binaryString |-> Base64DecodeChars(c)]

\* decodeBase64ToUint8Array storing only the low seven bits of each code unit.
decodeBase64Ascii(base64) ==
  LET binaryString == atob(base64).binaryString
  IN IF atob(base64).threw THEN InvalidCharacterError
     ELSE [i \in 1..Len(binaryString) |-> binaryString[i] % 128]

\* decodeBase64ToUint8Array: bytes[i] = binaryString.charCodeAt(i)
decodeBase64ToUint8Array(base64) ==
  LET binaryString == atob(base64).binaryString
  IN IF atob(base64).threw THEN InvalidCharacterError
     ELSE [i \in 1..Len(binaryString) |-> binaryString[i] % 256]

\* FileReader.readAsDataURL: the data URL of the blob, its prefix as one
\* element followed by the comma.
readAsDataURL(b) == << "data:audio/midi;base64", "," >> \o Base64Encode(b)

\* dataUrl.split(",")[1]: what lies between the first comma and the next.
RECURSIVE UpToComma(_)
UpToComma(s) ==
  IF Len(s) = 0 \/ s[1] = "," THEN << >>
  ELSE << s[1] >> \o UpToComma(Tail(s))

RECURSIVE SplitCommaSecond(_)
SplitCommaSecond(s) ==
  IF Len(s) = 0 THEN << "undefined" >>
  ELSE IF s[1] = "," THEN UpToComma(Tail(s))
  ELSE SplitCommaSecond(Tail(s))

\* blobToBase64
blobToBase64(b) == SplitCommaSecond(readAsDataURL(b))

\* Buffer.from(base64Data, "base64"): characters outside the alphabet are
\* skipped, decoding stops at the padding.
BufferFromBase64(s) ==
  Base64DecodeChars(SelectSeq(Unpadded(s, 2), IsBase64Char))

CodecInitFor(inputs) ==
  /\ bytes \in inputs
  /\ cpc = "idle"
  /\ direction = "none"
  /\ wire = << >>
  /\ received = << >>

\* sendMidiData: the host encodes the document's bytes into midi-data.
SendMidiData ==
  /\ cpc = "idle"
  /\ cpc' = "sent"
  /\ direction' = "load"
  /\ wire' = BufferToBase64(bytes)
  /\ UNCHANGED << bytes, received >>

\* handleMidiData decodes the data of midi-data.
ReceiveMidiData ==
  /\ cpc = "sent" /\ direction = "load"
  /\ cpc' = "received"
  /\ received' = decodeBase64ToUint8Array(wire)
  /\ UNCHANGED << bytes, direction, wire >>

\* onExport: the webview encodes the exported blob into export-midi.
SendExport ==
  /\ cpc = "idle"
  /\ cpc' = "sent"
  /\ direction' = "export"
  /\ wire' = blobToBase64(bytes)
  /\ UNCHANGED << bytes, received >>

\* handleMidiExport decodes the data of export-midi.
ReceiveExport ==
  /\ cpc = "sent" /\ direction = "export"
  /\ cpc' = "received"
  /\ received' = BufferFromBase64(wire)
  /\ UNCHANGED << bytes, direction, wire >>

CodecNext ==
  \/ SendMidiData /\ UNCHANGED << sandboxVars, hostVars, exportVars, gateVars, pickerVars >>
  \/ ReceiveMidiData /\ UNCHANGED << sandboxVars, hostVars, exportVars, gateVars, pickerVars >>
  \/ SendExport /\ UNCHANGED << sandboxVars, hostVars, exportVars, gateVars, pickerVars >>
  \/ ReceiveExport /\ UNCHANGED << sandboxVars, hostVars, exportVars, gateVars, pickerVars >>

\* ==================================================== host: the file picker
\* The host's answer to add-midi-files and add-audio-file: open a native
\* file picker; on selection read the bytes, encode them and push a
\* file-added message back.
Picks == 1..MaxPicks

AddFileKinds == { "add-midi-files", "add-audio-file" }

\* The files the user can select: a name and the bytes read from it.
PickableNames == { << "x", ".", "m" >>, << "y", ".", "w" >> }
PickableBytes == { << >>, << 65 >>, << 255, 0, 251, 65 >> }
PickableFiles == [name : PickableNames, bytes : PickableBytes]

NoFile == [name |-> << >>, bytes |-> << -1 >>]

\* file-added {data: base64, filename}
FileAdded(data, filename) ==
  [type |-> "file-added", data |-> data, filename |-> filename]

PickerInit ==
  /\ ppc = [h \in Picks |-> "idle"]
  /\ pickKind = [h \in Picks |-> ""]
  /\ picked = [h \in Picks |-> NoFile]
  /\ fileAdded = [h \in Picks |-> << >>]

\* The host receives add-midi-files or add-audio-file: the picker opens.
HostAddFile(h, kind) ==
  /\ ppc[h] = "idle"
  /\ \A k \in Picks : k < h => ppc[k] # "idle"
  /\ ppc' = [ppc EXCEPT ![h] = "picking"]
  /\ pickKind' = [pickKind EXCEPT ![h] = kind]
  /\ UNCHANGED << picked, fileAdded >>

\* The user selects a file in the picker.
UserSelects(h, f) ==
  /\ ppc[h] = "picking"
  /\ ppc' = [ppc EXCEPT ![h] = "selected"]
  /\ picked' = [picked EXCEPT ![h] = f]
  /\ UNCHANGED << pickKind, fileAdded >>

\* The user dismisses the picker without a selection.
UserCancels(h) ==
  /\ ppc[h] = "picking"
  /\ ppc' = [ppc EXCEPT ![h] = "cancelled"]
  /\ UNCHANGED << pickKind, picked, fileAdded >>

\* A handler that pushes the name of the selected file with no data.
ReadEncodeAndPushNameOnly(h) ==
  /\ ppc[h] = "selected"
  /\ ppc' = [ppc EXCEPT ![h] = "pushed"]
  /\ fileAdded' = [fileAdded EXCEPT ![h] =
                     Append(@, FileAdded(<< >>, picked[h].name))]
  /\ UNCHANGED << pickKind, picked >>

\* On selection: read the bytes, encode them, push file-added.
ReadEncodeAndPush(h) ==
  /\ ppc[h] = "selected"
  /\ ppc' = [ppc EXCEPT ![h] = "pushed"]
  /\ fileAdded' = [fileAdded EXCEPT ![h] =
                     Append(@, FileAdded(BufferToBase64(picked[h].bytes), picked[h].name))]
  /\ UNCHANGED << pickKind, picked >>

PickerNext ==
  \/ \E h \in Picks, k \in AddFileKinds :
       HostAddFile(h, k) /\ UNCHANGED << sandboxVars, hostVars, exportVars, gateVars, codecVars >>
  \/ \E h \in Picks, f \in PickableFiles :
       UserSelects(h, f) /\ UNCHANGED << sandboxVars, hostVars, exportVars, gateVars, codecVars >>
  \/ \E h \in Picks : UserCancels(h) /\ UNCHANGED << sandboxVars, hostVars, exportVars, gateVars, codecVars >>
  \/ \E h \in Picks :
       ReadEncodeAndPush(h) /\ UNCHANGED << sandboxVars, hostVars, exportVars, gateVars, codecVars >>

\* =========================================================== specifications
Init ==
  /\ SandboxInit
  /\ HostInit
  /\ ExportInitFor({<< "s", ".", "m" >>})
  /\ GateInitFor({PollDelayMs}, {FALSE})
  /\ CodecInitFor({<< >>})
  /\ PickerInit

Next ==
  \/ \E l \in Loads : MidiData(l) /\ UNCHANGED << hostVars, exportVars, gateVars, codecVars, pickerVars >>
  \/ \E l \in Loads : GateReject(l) /\ UNCHANGED << hostVars, exportVars, gateVars, codecVars, pickerVars >>
  \/ \E l \in Loads : DecodeFails(l) /\ UNCHANGED << hostVars, exportVars, gateVars, codecVars, pickerVars >>
  \/ \E l \in Loads : BeginInitialize(l) /\ UNCHANGED << hostVars, exportVars, gateVars, codecVars, pickerVars >>
  \/ \E l \in Loads : EngineCreated(l) /\ UNCHANGED << hostVars, exportVars, gateVars, codecVars, pickerVars >>
  \/ \E l \in Loads, t \in EngineErrors :
       EngineFailed(l, t) /\ UNCHANGED << hostVars, exportVars, gateVars, codecVars, pickerVars >>
  \/ \E s \in Settings \cup {NullSettings} :
       \E emits, throws \in ApplyOutcomes(s) :
         SettingsLoaded(s, emits, throws) /\ UNCHANGED << hostVars, exportVars, gateVars, codecVars, pickerVars >>
  \/ \E e \in Loads, s \in Settings :
       AppearanceChange(e, s) /\ UNCHANGED << hostVars, exportVars, gateVars, codecVars, pickerVars >>
  \/ Unload /\ UNCHANGED << hostVars, exportVars, gateVars, codecVars, pickerVars >>

Spec == Init /\ [][Next]_vars

\* The session manager together with the user's add-file requests.
RequestNext ==
  \/ Next
  \/ \E e \in Loads, k \in {"fileAdd", "audioAdd"} :
       FileAddRequest(e, k) /\ UNCHANGED << hostVars, exportVars, gateVars, codecVars, pickerVars >>

RequestSpec == Init /\ [][RequestNext]_vars

HostSpec == Init /\ [][HostNext]_vars

ExportInit ==
  /\ SandboxInit
  /\ HostInit
  /\ ExportInitFor(Filenames)
  /\ GateInitFor({PollDelayMs}, {FALSE})
  /\ CodecInitFor({<< >>})
  /\ PickerInit

ExportSpec == ExportInit /\ [][ExportNext]_vars

GateInit ==
  /\ SandboxInit
  /\ HostInit
  /\ ExportInitFor({<< "s", ".", "m" >>})
  /\ GateInitFor(Timeouts, BOOLEAN)
  /\ CodecInitFor({<< >>})
  /\ PickerInit

CodecInit ==
  /\ SandboxInit
  /\ HostInit
  /\ ExportInitFor({<< "s", ".", "m" >>})
  /\ GateInitFor({PollDelayMs}, {FALSE})
  /\ CodecInitFor(ByteSeqs)
  /\ PickerInit

CodecSpec == CodecInit /\ [][CodecNext]_vars

GateSpec == GateInit /\ [][GateNext]_vars

\* The browser keeps delivering animation frames and timers, and time passes.
GateFairSpec ==
  /\ GateSpec
  /\ WF_vars(AnimationFrame /\ UNCHANGED << sandboxVars, hostVars, exportVars, codecVars, pickerVars >>)
  /\ WF_vars(TimerFires /\ UNCHANGED << sandboxVars, hostVars, exportVars, codecVars, pickerVars >>)
  /\ WF_vars(Tick /\ UNCHANGED << sandboxVars, hostVars, exportVars, codecVars, pickerVars >>)

PickerSpec == Init /\ [][PickerNext]_vars

\* The host runs the continuation of a picker whose user has selected.
PickerFairSpec ==
  /\ PickerSpec
  /\ \A h \in Picks :
       WF_vars(ReadEncodeAndPush(h)
                 /\ UNCHANGED << sandboxVars, hostVars, exportVars, gateVars, codecVars >>)

\* ------------------------------------------------------------------ claims
RECURSIVE SumOver(_, _)
SumOver(f, S) ==
  IF S = {} THEN 0
  ELSE LET x == CHOOSE y \in S : TRUE IN f[x] + SumOver(f, S \ {x})

HasType(msgs, type) == \E i \in DOMAIN msgs : msgs[i].type = type

\* The loads so far were sequential and all succeeded.
SequentialSuccess == overlaps = 0 /\ \A l \in Arrived : pc[l] = "done"

\* C1: at any time at most one engine has been constructed and not yet
\* disposed, also when a load arrives while an earlier one is in flight.
C1_AtMostOneLiveEngine == Cardinality(LiveEngines) <= 1

\* C2: N sequential successful loads followed by unload construct exactly N
\* engines and call dispose() exactly N times, once per engine; and whenever
\* a load of such a run allocates its handle, every engine of an earlier load
\* has been disposed before, any dispose() of the same step coming first.
C2_SequentialLoads ==
  /\ (unloaded /\ SequentialSuccess) =>
        /\ Cardinality(constructed) = Cardinality(Arrived)
        /\ SumOver(disposeCount, Loads) = Cardinality(Arrived)
        /\ \A e \in constructed : disposeCount[e] = 1
  /\ (overlaps = 0 /\ event.kind = "begin-initialize"
        /\ \A l \in Arrived \ {event.load} : pc[l] = "done") =>
        /\ \A e \in constructed : disposeCount[e] = 1
        /\ \A i, j \in DOMAIN ops :
             (ops[i][1] = "dispose" /\ ops[j][1] = "createObjectURL") => i < j

C2_Witness ==
  /\ unloaded /\ SequentialSuccess
  /\ Cardinality(Arrived) >= 3
  /\ SumOver(disposeCount, Loads) >= 3

\* C3: an appearance-change fired while a settings-loaded reply is applied
\* posts no save-settings (stated here); one fired by the current engine
\* after the reply to its get-settings has been processed posts a
\* save-settings carrying the changed settings (SaveAfterReply below).
C3_NoEchoOnApply ==
  event.kind = "settings-loaded" => ~HasType(posted, "save-settings")

\* The second half of C3: it fails only after an applyAppearanceSettings
\* that threw, which leaves pendingSettingsRequest set.
SaveAfterReply ==
  (event.kind = "appearance-change" /\ event.load = playerInstance
     /\ settingsAnswered = getSettingsSent) =>
     posted = << Msg("save-settings", event.settings, "") >>

C9_RecoversFromError ==
  (event.kind = "engine-created" /\ fromError
     /\ \A l \in Arrived : l <= event.load) =>
     /\ SMState = "Ready"
     /\ status = "ready"
     /\ Cardinality(LiveEngines) = 1
     /\ HasType(posted, "get-settings")

\* C10: once the unload handler has run, every subscription is
\* unsubscribed, every constructed engine disposed and every allocated
\* handle released.
C10_UnloadCleansUp ==
  unloaded => /\ activeSubs = {}
              /\ LiveEngines = {}
              /\ LiveHandles = {}

\* The same without overlapping loads: what the leak of C1 does not touch.
NoOverlapNoLeak ==
  overlaps = 0 => /\ C1_AtMostOneLiveEngine
                  /\ C9_RecoversFromError
                  /\ C10_UnloadCleansUp

\* C11: the sandbox never has more than one get-settings outstanding: it
\* sends none while an earlier one is unanswered by a settings-loaded.
\* Stated for runs whose loads do not overlap, where the second load
\* completes before the reply to the first has arrived.
C11_OneOutstandingRequest ==
  overlaps = 0 =>
    /\ getSettingsSent - settingsAnswered <= 1
    /\ HasType(posted, "get-settings") => getSettingsSent - settingsAnswered = 1

\* C12: after the sandbox has processed a settings-loaded message, whatever
\* its payload and whether or not applyAppearanceSettings threw,
\* pendingSettingsRequest is false.
C12_FlagClearedAfterReply ==
  event.kind = "settings-loaded" => ~pendingSettingsRequest

\* C14: applyAppearanceSettings is invoked only in Ready; a settings-loaded
\* handled in Empty, Loading or Error applies nothing and raises no error.
\* Stated for runs whose loads do not overlap.
C14_AppliedOnlyInReady ==
  (overlaps = 0 /\ event.kind = "settings-loaded") =>
    /\ event.applied => SMState = "Ready"
    /\ SMState # "Ready" => (ops = << >> /\ ~event.escaped)

\* C15: no callback stays subscribed on a disposed engine: the prior
\* session's subscriptions are removed and its engine disposed before the
\* new handle is allocated.  Stated for runs whose loads do not overlap.
C15_NoSubscriptionOnDisposedEngine ==
  overlaps = 0 =>
  /\ \A s \in activeSubs : disposeCount[s[2]] = 0
  /\ event.kind = "begin-initialize" =>
       \A i, j \in DOMAIN ops :
         (ops[i][1] = "dispose" /\ ops[j][1] = "createObjectURL") =>
           /\ i < j
           /\ \A k \in {"appearance", "fileAdd", "audioAdd"} :
                \E u \in 1..(j - 1) :
                  ops[u] = Op("unsubscribe", k, ops[i][3])

C19_ReleaseIdempotent ==
  LET once == revokeBlobUrl(currentBlobUrl, revokeCount)
      twice == revokeBlobUrl(once.url, once.counts)
  IN /\ \A h \in Loads : revokeCount[h] <= 1 /\ once.counts[h] <= 1
     /\ \A h \in Loads \ allocated : revokeCount[h] = 0
     /\ twice.url = once.url /\ twice.counts = once.counts /\ twice.ops = << >>
     /\ currentBlobUrl = NULL =>
          (once.url = NULL /\ once.counts = revokeCount /\ once.ops = << >>)
     /\ (event.kind \in {"begin-initialize", "unload"}) =>
          \A i, j \in DOMAIN ops :
            (ops[i][1] = "revokeObjectURL" /\ ops[j][1] = "revokeObjectURL") => i = j

C19_Witness ==
  /\ event.kind = "unload"
  /\ currentBlobUrl = NULL
  /\ \E h \in allocated : ops[Len(ops)] = Op("revokeObjectURL", "", h)
  /\ Cardinality(allocated) >= 2
  /\ \A h \in allocated : revokeCount[h] = 1

\* C24: whenever no load is in progress, the handles allocated and not yet
\* released are as many as the live sessions: one in Ready, none in Empty
\* and none in Error.  Stated for runs whose loads do not overlap.
C24_HandlesMatchSessions ==
  (overlaps = 0 /\ InFlight = {} /\ ~unloaded) =>
    /\ Cardinality(LiveHandles) = Cardinality(LiveEngines)
    /\ SMState = "Ready" => Cardinality(LiveHandles) = 1
    /\ SMState \in {"Empty", "Error"} => LiveHandles = {}

\* C25: when a load that arrived while a session was live has failed, no
\* engine of an earlier load is live in the Error state, and no handle of
\* one is held.  Stated for runs whose loads do not overlap.
C25_ErrorLeavesNoPriorSession ==
  (overlaps = 0 /\ event.kind = "load-failed" /\ SMState = "Error") =>
    /\ \A e \in LiveEngines : e >= event.load
    /\ \A h \in LiveHandles : h >= event.load

\* C27: a get-settings is sent only by the step in which the engine of a
\* load has been constructed, once for each such load and never for a
\* failed one; no settings-loaded is handled before the first midi-data.
C27_GetSettingsPerSuccessfulLoad ==
  /\ getSettingsSent = Cardinality({ l \in Loads : pc[l] = "done" })
  /\ HasType(posted, "get-settings") =>
       /\ event.kind = "engine-created"
       /\ pc[event.load] = "done"
       /\ event.load \in constructed
       /\ posted = << Msg("get-settings", NullSettings, "") >>
  /\ event.kind = "load-failed" => ~HasType(posted, "get-settings")
  /\ Arrived = {} => (getSettingsSent = 0 /\ settingsAnswered = 0)

C27_Witness ==
  /\ event.kind = "engine-created"
  /\ getSettingsSent = 2
  /\ \E l \in Loads : pc[l] = "failed"
  /\ settingsAnswered = 1

\* The kinds of subscription the webview makes on an engine.
SubscriptionKinds == { "appearance", "fileAdd", "audioAdd" }

\* The messages an engine event can make the webview send.
EngineEventMessages == { "save-settings", "add-midi-files", "add-audio-file" }

\* C26: after any sequence of loads, successful, failed or overlapping, at
\* most one subscription of each kind is registered, on whatever engine, so
\* the step that handles one engine event (an appearance change, a file-add
\* or an audio-file-add request) posts at most one message, and a step of
\* any kind posts at most one save-settings, add-midi-files or
\* add-audio-file.
C26_OneSubscriptionPerKind ==
  /\ \A k \in SubscriptionKinds :
       Cardinality({ s \in activeSubs : s[1] = k }) <= 1
  /\ event.kind \in SubscriptionKinds \cup {"appearance-change"} => Len(posted) <= 1
  /\ Cardinality({ i \in DOMAIN posted : posted[i].type \in EngineEventMessages }) <= 1
  /\ \A k \in {"fileAdd", "audioAdd"} :
       event.kind = k =>
         posted = (IF <<k, event.load>> \in activeSubs
                   THEN << FileAddMessage(k) >> ELSE << >>)

\* Overlapping loads have left two engines live; the user asks the later one
\* to add an audio file and one add-audio-file is sent, after load 3 failed.
C26_Witness ==
  /\ Cardinality(LiveEngines) = 2
  /\ event.kind = "audioAdd"
  /\ posted = << Msg("add-audio-file", NullSettings, "") >>
  /\ pc[3] = "failed"
  /\ Cardinality(activeSubs) = 3

\* C29: the handle of an engine that is being constructed or is live has
\* not been released; a second load does not revoke the handle of a first
\* load whose engine construction is pending.  Stated for the webview
\* before its unload.
C29_HandleOutlivesEngine ==
  ~unloaded =>
    \A l \in Loads :
      (pc[l] = "create" \/ l \in LiveEngines) => revokeCount[l] = 0

\* C30: no save-settings is sent while pendingSettingsRequest is true, and
\* an appearance change made while the reply to a get-settings is still
\* outstanding is discarded.  Stated for runs whose loads do not overlap.
C30_NoSaveWhilePending ==
  overlaps = 0 =>
    /\ HasType(posted, "save-settings") => ~pendingSettingsRequest
    /\ (event.kind = "appearance-change" /\ settingsAnswered < getSettingsSent) =>
         ~HasType(posted, "save-settings")

C18_ZeroSizedTimesOut ==
  /\ [](~resizable => gpc # "resolved")
  /\ []((~resizable /\ gpc = "rejected") =>
          (now >= timeoutMs /\ rejectWidth = 0 /\ lastCheck.w <= 0))
  /\ (~resizable ~> gpc = "rejected")

C18_Witness ==
  /\ ~resizable
  /\ gpc = "rejected"
  /\ lastCheck = Check(0, 0)
  /\ prevCheck = Check(0, 0)
  /\ now > timeoutMs

\* ---------------------------------------------- claims about the transfer
\* C20: what the receiver decodes is the byte sequence the sender encoded,
\* same length and same bytes, from host to webview and, for exports, from
\* webview to host.
C20_RoundTrip ==
  cpc = "received" =>
    /\ Len(received) = Len(bytes)
    /\ \A i \in 1..Len(bytes) : received[i] = bytes[i]

C20_Witness ==
  /\ cpc = "received"
  /\ direction = "export"
  /\ bytes = << 255, 0, 251, 65 >>
  /\ received = bytes
  /\ wire[Len(wire)] = "="

\* -------------------------------------------------- claims about the host
\* C4: a get-settings for document D is answered with exactly the structure
\* of the most recent save-settings for D that carried one, and with null
\* when there was none.
C4_GetReturnsLastSaved ==
  hostEvent.kind = "get-settings" =>
    hostPosted = << Msg("settings-loaded", lastSaved[hostEvent.uri], "") >>

C4_Witness ==
  /\ hostEvent.kind = "get-settings"
  /\ prevSaved[hostEvent.uri] = [paletteId |-> "p2", noteColor |-> 1]
  /\ hostPosted = << Msg("settings-loaded", [paletteId |-> "p1"], "") >>
  /\ \E u \in Uris : lastSaved[u] = NullSettings

\* The settings-loaded messages among those the host posted in its last step.
SettingsReplies ==
  { i \in DOMAIN hostPosted : hostPosted[i].type = "settings-loaded" }

C31_RecordNeverLost ==
  [][ /\ (hostEvent'.kind = "save-settings"
          /\ hostEvent'.settings \in {NullSettings, Undefined}) =>
           globalState' = globalState
      /\ \A u \in Uris :
           globalState[getSettingsKey(u)] # Undefined =>
             globalState'[getSettingsKey(u)] \in Settings
      /\ (hostEvent'.kind = "get-settings"
          /\ globalState[getSettingsKey(hostEvent'.uri)] # Undefined) =>
           /\ Len(hostPosted') = 1
           /\ hostPosted'[1].type = "settings-loaded"
           /\ hostPosted'[1].settings \in Settings ]_vars

\* A save-settings with no payload has just been handled for a document
\* whose record exists after two saves, while another document has none.
C31_Witness ==
  /\ hostEvent.kind = "save-settings"
  /\ hostEvent.settings = Undefined
  /\ hostEvent.uri = << "a" >>
  /\ globalState[getSettingsKey(<< "a" >>)] = [paletteId |-> "p2", noteColor |-> 1]
  /\ prevSaved[<< "a" >>] = [paletteId |-> "p1"]
  /\ globalState[getSettingsKey(<< "b" >>)] = Undefined

\* C28: a save-settings or get-settings handled for document D touches only
\* the record of D: the record of every document is what the last
\* save-settings handled for that very document stored (absent when there
\* was none), a get-settings for D replies with the record of D, and two
\* different documents never have the same key.
C28_RecordsIsolated ==
  /\ \A u \in Uris : OrNull(globalState[getSettingsKey(u)]) = lastSaved[u]
  /\ \A u, v \in Uris : u # v => getSettingsKey(u) # getSettingsKey(v)
  /\ Cardinality(AllKeys) = Cardinality(Uris)
  /\ hostEvent.kind = "get-settings" =>
       \A i \in DOMAIN hostPosted :
         hostPosted[i].settings = OrNull(globalState[getSettingsKey(hostEvent.uri)])

\* A save-settings has just been handled for a document whose URI begins
\* like that of another document, and the two records differ.
C28_Witness ==
  /\ hostEvent.kind = "save-settings"
  /\ hostEvent.uri = << "a" >>
  /\ hostEvent.settings = [paletteId |-> "p1"]
  /\ globalState[getSettingsKey(<< "a", "b" >>)] = [paletteId |-> "p2", noteColor |-> 1]
  /\ globalState[getSettingsKey(<< "a" >>)] = [paletteId |-> "p1"]
  /\ globalState[getSettingsKey(<< "b" >>)] = Undefined

\* The sequence of names the resolver is to try, with the filename split at
\* the '.' at position dot (1-based), or not split when dot is 0.
NameAt(filename, dot, n) ==
  IF n = 0 THEN filename
  ELSE IF dot = 0 THEN filename \o << "(" >> \o Decimal(n) \o << ")" >>
  ELSE SubSeq(filename, 1, dot - 1) \o << "(" >> \o Decimal(n) \o << ")" >>
         \o SubSeq(filename, dot, Len(filename))

Dots(filename) == { i \in DOMAIN filename : filename[i] = "." }
Greatest(S) == CHOOSE x \in S : \A y \in S : y <= x

\* Split at the last '.', wherever it is.
LastDot(filename) == IF Dots(filename) = {} THEN 0 ELSE Greatest(Dots(filename))
\* Split at the last '.' unless it is the first character.
LastInnerDot(filename) ==
  IF Dots(filename) \ {1} = {} THEN 0 ELSE Greatest(Dots(filename))

\* The resolver has just returned, its last probe answering not-found.
ResolvedNotFound == xevent.kind = "resolved" /\ xevent.outcome = "not-found"

C6_NoSilentOverwrite ==
  (xevent.kind = "written" /\ xevent.outcome = "showInformationMessage") =>
    ~xevent.existed

\* C7: the resolver never returns, and the export never writes to, a name
\* whose probe failed otherwise than with not-found.
C7_ProbeFailureMeansExists ==
  /\ xevent.kind = "resolved" => xevent.outcome # "error"
  /\ \A h \in Exports : xpc[h] = "write" => ~probeFailed[h]

\* C22: every export-midi the host has finished handling showed exactly one
\* notification and an unfinished one none yet; the success notification is
\* shown only once writeFile has completed (the written name then exists),
\* the failure notification when the payload, the resolution or the write
\* raised; no message is posted to the webview, and a handler is never left
\* anywhere but at its end after a failure.
C22_OneNotificationPerExport ==
  /\ \A h \in Exports :
       /\ xpc[h] = "done" => Len(notifications[h]) = 1
       /\ xpc[h] # "done" => notifications[h] = << >>
       /\ xpc[h] \in {"idle", "probe", "write", "done"}
       /\ \A i \in DOMAIN notifications[h] :
            /\ notifications[h][i].shown \in {"showInformationMessage", "showErrorMessage"}
            /\ notifications[h][i].shown = "showInformationMessage"
                 <=> notifications[h][i].after = "written"
  /\ xevent.kind \in {"written", "raised"} =>
       /\ xpc[xevent.export] = "done"
       /\ notifications[xevent.export] =
            << Notification(xevent.outcome,
                 IF xevent.kind = "raised" THEN "raised"
                 ELSE IF xevent.outcome = "showInformationMessage" THEN "written"
                 ELSE "write-raised") >>
  /\ (xevent.kind = "written" /\ xevent.outcome = "showInformationMessage") =>
       xevent.target \in files
  /\ hostPosted = << >>

\* One export has failed at its write and the other on its payload, each
\* with its one failure notification, and an earlier name exists.
C22_Witness ==
  /\ xevent.kind = "written"
  /\ xevent.outcome = "showErrorMessage"
  /\ \A h \in Exports : xpc[h] = "done"
  /\ \E h \in Exports : notifications[h] = << Notification("showErrorMessage", "raised") >>
  /\ \E h \in Exports : notifications[h] = << Notification("showErrorMessage", "write-raised") >>
  /\ files # {}

\* C23: no export writes to the path of the open document: the name an
\* export is about to write, and the name it has written or failed to
\* write, is never the document's own.
C23_DocumentPathNeverWritten ==
  /\ \A h \in Exports :
       xpc[h] = "write" => TargetUri(suggested, counter[h]) # DocumentName
  /\ xevent.kind = "written" => xevent.target # DocumentName

TypeOK ==
  /\ pc \in [Loads -> {"idle", "gate", "create", "done", "failed"}]
  /\ playerInstance \in Loads \cup {NULL}
  /\ currentBlobUrl \in Loads \cup {NULL}
  /\ status \in {"loading", "ready", "error"}
  /\ settingsAnswered <= getSettingsSent
====
